---------------------------- MODULE Spec2Model ----------------------------
(***************************************************************************)
(* The RESP serializer of tinyredis (redis/src/ser.rs, types.rs, error.rs) *)
(* as a state machine.  The sink `w` receives bytes; the serde visitor     *)
(* drives the Serializer one trait-method call at a time; `stack` is the   *)
(* chain of composite values that are open.  Text is a sequence of code    *)
(* points, the sink holds bytes (0..255), integers are little-endian byte  *)
(* patterns of their own width.  serialize_f32/f64 (write_double) are not  *)
(* modelled: no property checked here reads a floating point token.        *)
(***************************************************************************)
EXTENDS Integers, Sequences, FiniteSets, TLC

VARIABLES w, stack, result, fuel, top

vars == <<w, stack, result, fuel, top>>

(***************************** bounds **************************************)
\* Serializer value calls the visitor makes in one pass over a Vec sink.
MaxCalls == 3
\* The same, for a pass over a sink of bounded room.
MaxIoCalls == 3
\* Most bytes a bounded sink accepts before it starts to fail.
MaxRoom == 12
\* Largest count a visitor declares for a composite.
MaxLen == 2

(***************************** types.rs ************************************)
BOOLEAN_TAG == 35
INTEGER == 58
BIG_NUMBER == 40
SIMPLE_STRING == 43
BULK_STRING == 36
NULL == 95
ARRAY == 42
MAP == 37
CR == 13
LF == 10
CRLF == <<CR, LF>>

(************************ text and number helpers **************************)
\* char::encode_utf8 / the bytes a str holds: UTF-8 of one code point.
Utf8Char(c) ==
    IF c < 128 THEN <<c>>
    ELSE IF c < 2048 THEN <<192 + (c \div 64), 128 + (c % 64)>>
    ELSE IF c < 65536
         THEN <<224 + (c \div 4096), 128 + ((c \div 64) % 64), 128 + (c % 64)>>
    ELSE <<240 + (c \div 262144), 128 + ((c \div 4096) % 64),
           128 + ((c \div 64) % 64), 128 + (c % 64)>>

RECURSIVE Utf8(_)
\* The bytes of a str (a sequence of code points); str::len is their number.
Utf8(s) == IF s = <<>> THEN <<>> ELSE Utf8Char(Head(s)) \o Utf8(Tail(s))

IsCont(b) == b >= 128 /\ b < 192

RECURSIVE from_utf8(_)
\* std::str::from_utf8: the code points of a byte slice, or <<-1>> (Err) when
\* the slice is not well-formed UTF-8 (bad lead byte, missing continuation,
\* overlong form, surrogate, above U+10FFFF).
from_utf8(b) ==
    IF b = <<>> THEN <<>>
    ELSE LET b1 == b[1]
             n == IF b1 < 128 THEN 1
                  ELSE IF b1 >= 194 /\ b1 <= 223 THEN 2
                  ELSE IF b1 >= 224 /\ b1 <= 239 THEN 3
                  ELSE IF b1 >= 240 /\ b1 <= 244 THEN 4
                  ELSE 0
             okLen == n > 0 /\ Len(b) >= n
             okCont == okLen /\ \A i \in 2..n : IsCont(b[i])
             okRange == okCont /\
                 CASE n = 3 /\ b1 = 224 -> b[2] >= 160
                   [] n = 3 /\ b1 = 237 -> b[2] < 160
                   [] n = 4 /\ b1 = 240 -> b[2] >= 144
                   [] n = 4 /\ b1 = 244 -> b[2] < 144
                   [] OTHER -> TRUE
             cp == CASE n = 1 -> b1
                     [] n = 2 -> (b1 - 192) * 64 + (b[2] - 128)
                     [] n = 3 -> (b1 - 224) * 4096 + (b[2] - 128) * 64 + (b[3] - 128)
                     [] OTHER -> (b1 - 240) * 262144 + (b[2] - 128) * 4096
                                 + (b[3] - 128) * 64 + (b[4] - 128)
             rest == IF okRange THEN from_utf8(SubSeq(b, n + 1, Len(b))) ELSE <<-1>>
         IN  IF ~okRange \/ rest = <<-1>> THEN <<-1>> ELSE <<cp>> \o rest

RECURSIVE fmt_usize(_)
\* Display of a usize: its decimal digits, no leading zero.
fmt_usize(n) ==
    IF n < 10 THEN <<48 + n>> ELSE fmt_usize(n \div 10) \o <<48 + (n % 10)>>

\* `v as i64` from a little-endian pattern of 1, 2, 4 or 8 bytes: sign
\* extension of a signed source, zero extension of an unsigned one.
as_i64(signed, le) ==
    LET fill == IF signed /\ le[Len(le)] >= 128 THEN 255 ELSE 0
    IN  [i \in 1..8 |-> IF i <= Len(le) THEN le[i] ELSE fill]

IsZero(le) == \A i \in 1..Len(le) : le[i] = 0

RECURSIVE DivRem10(_, _, _)
\* Long division of a little-endian pattern by ten, from byte i down with
\* remainder r carried in: <<quotient bytes, remainder>>.
DivRem10(le, i, r) ==
    IF i = 0 THEN <<le, r>>
    ELSE LET cur == r * 256 + le[i]
         IN  DivRem10([le EXCEPT ![i] = cur \div 10], i - 1, cur % 10)

RECURSIVE Digits(_)
Digits(le) ==
    IF IsZero(le) THEN <<>>
    ELSE LET qr == DivRem10(le, Len(le), 0) IN Digits(qr[1]) \o <<48 + qr[2]>>

\* Display of a u64 (u64::to_string).
fmt_u64(le) == IF IsZero(le) THEN <<48>> ELSE Digits(le)

RECURSIVE AddOne(_, _)
AddOne(le, i) ==
    IF i > Len(le) THEN le
    ELSE IF le[i] = 255 THEN AddOne([le EXCEPT ![i] = 0], i + 1)
    ELSE [le EXCEPT ![i] = @ + 1]

\* Two's complement negation of an i64 pattern: the magnitude of a negative.
wrapping_neg(le) == AddOne([i \in 1..Len(le) |-> 255 - le[i]], 1)

\* Display of an i64: `-` and the magnitude when the sign bit is set.
fmt_i64(le) ==
    IF le[8] >= 128 THEN <<45>> \o fmt_u64(wrapping_neg(le)) ELSE fmt_u64(le)


(***************************** error.rs ************************************)
\* Result values: Ok(()), Err(Error::Io(e)), Err(Error::Custom(msg)); Pending
\* while the call has not returned, Panic when it unwound instead.
OkRes == [tag |-> "Ok", err |-> ""]
Pending == [tag |-> "Pending", err |-> ""]
Panic == [tag |-> "Panic", err |-> "from_utf8"]

\* impl From<std::io::Error> for Error
from(err) == [tag |-> "Io", err |-> err]

\* The `?` operator on an io::Result: an Ok passes, an Err returns the
\* converted error from the enclosing function.
Try(r) == IF r.res.tag = "Ok" THEN r ELSE [w |-> r.w, res |-> from(r.res.err)]

(****************************** the sink ***********************************)
\* W: io::Write.  buf: the bytes accepted so far.  A Vec<u8> (to_string) is
\* unbounded; a bounded sink (&mut [u8], a full pipe) accepts `room` more
\* bytes, then fails the write that does not fit after taking what fits.
\* late counts the write calls made after a write has failed.
VecSink == [buf |-> <<>>, bounded |-> FALSE, room |-> 0, failed |-> FALSE, late |-> 0]
BoundedSink(n) == [buf |-> <<>>, bounded |-> TRUE, room |-> n, failed |-> FALSE, late |-> 0]

\* write!(self.w, ...): io::Write::write_fmt of the formatted bytes.
write_fmt(s, bytes) ==
    IF s.failed
    THEN [w |-> [s EXCEPT !.late = @ + 1], res |-> [tag |-> "IoError", err |-> "WriteZero"]]
    ELSE IF ~s.bounded \/ Len(bytes) <= s.room
    THEN [w |-> [s EXCEPT !.buf = @ \o bytes,
                          !.room = IF s.bounded THEN @ - Len(bytes) ELSE @],
          res |-> OkRes]
    ELSE [w |-> [s EXCEPT !.buf = @ \o SubSeq(bytes, 1, s.room),
                          !.room = 0, !.failed = TRUE],
          res |-> [tag |-> "IoError", err |-> "WriteZero"]]

(************************** primitive writers ******************************)
write_integer(s, value) == Try(write_fmt(s, <<INTEGER>> \o fmt_i64(value) \o CRLF))

\* value: the Display text of the argument, already formatted.
write_big_number(s, value) == Try(write_fmt(s, <<BIG_NUMBER>> \o value \o CRLF))

write_boolean(s, value) ==
    Try(write_fmt(s, <<BOOLEAN_TAG, IF value THEN 116 ELSE 102>> \o CRLF))

\* value: a text (code points); Display writes its UTF-8 bytes.
write_simple_string(s, value) ==
    Try(write_fmt(s, <<SIMPLE_STRING>> \o Utf8(value) \o CRLF))

\* A bulk string whose first write ignores its result.
write_bulk_string_unchecked(s, value) ==
    LET bytes == Utf8(value)
        r1 == write_fmt(s, <<BULK_STRING>> \o fmt_usize(Len(bytes)) \o CRLF)
    IN  Try(write_fmt(r1.w, bytes \o CRLF))

\* A bulk string that declares the number of characters.
write_bulk_string_chars(s, value) ==
    LET r1 == Try(write_fmt(s, <<BULK_STRING>> \o fmt_usize(Len(value)) \o CRLF))
    IN  IF r1.res.tag # "Ok" THEN r1 ELSE Try(write_fmt(r1.w, Utf8(value) \o CRLF))

write_bulk_string(s, value) ==
    LET bytes == Utf8(value)
        r1 == Try(write_fmt(s, <<BULK_STRING>> \o fmt_usize(Len(bytes)) \o CRLF))
    IN  IF r1.res.tag # "Ok" THEN r1 ELSE Try(write_fmt(r1.w, bytes \o CRLF))

write_null(s) == Try(write_fmt(s, <<NULL>> \o CRLF))

\* Option<usize>
None == [some |-> FALSE, n |-> 0]
Some(n) == [some |-> TRUE, n |-> n]
unwrap_or(len, d) == IF len.some THEN len.n ELSE d

write_array_header(s, len) ==
    Try(write_fmt(s, <<ARRAY>> \o fmt_usize(unwrap_or(len, 0)) \o CRLF))

write_map_header(s, len) ==
    Try(write_fmt(s, <<MAP>> \o fmt_usize(unwrap_or(len, 0)) \o CRLF))

(********************* impl ser::Serializer: leaf values *******************)
serialize_bool(s, v) == write_boolean(s, v)
serialize_i8(s, v) == write_integer(s, as_i64(TRUE, v))
serialize_i16(s, v) == write_integer(s, as_i64(TRUE, v))
serialize_i32(s, v) == write_integer(s, as_i64(TRUE, v))
serialize_i64(s, v) == write_integer(s, v)
serialize_u8(s, v) == write_integer(s, as_i64(FALSE, v))
serialize_u16(s, v) == write_integer(s, as_i64(FALSE, v))
serialize_u32(s, v) == write_big_number(s, fmt_i64(as_i64(FALSE, v)))
serialize_u64(s, v) == write_big_number(s, fmt_u64(v))

serialize_char(s, v) ==
    IF v = CR \/ v = LF THEN write_bulk_string(s, <<v>>) ELSE write_simple_string(s, <<v>>)

serialize_str(s, v) == write_bulk_string(s, v)

\* serialize_bytes that replaces what is not UTF-8 (from_utf8_lossy).
serialize_bytes_lossy(s, v) ==
    IF from_utf8(v) = <<-1>> THEN write_bulk_string(s, <<65533>>)
    ELSE write_bulk_string(s, from_utf8(v))

\* from_utf8(v).unwrap() panics on an Err, before anything is written.
serialize_bytes(s, v) ==
    IF from_utf8(v) = <<-1>> THEN [w |-> s, res |-> Panic]
    ELSE write_bulk_string(s, from_utf8(v))

serialize_none(s) == write_null(s)

serialize_unit(s) == write_array_header(s, None)
serialize_unit_struct(s) == write_map_header(s, Some(0))
serialize_unit_variant(s, variant) == write_bulk_string(s, variant)

(****************** impl ser::Serializer: wrappers, composites *************)
\* serialize_some that marks the present value with a one-element array.
serialize_some_tagged(s) == write_array_header(s, Some(1))

\* What serialize_some writes itself before it hands the value on: nothing.
serialize_some(s) == [w |-> s, res |-> OkRes]
serialize_newtype_struct(s) == [w |-> s, res |-> OkRes]
serialize_newtype_variant(s) == [w |-> s, res |-> OkRes]

serialize_seq(s, len) == write_array_header(s, len)
serialize_tuple(s, len) == write_array_header(s, Some(len))
serialize_tuple_struct(s, len) == write_array_header(s, Some(len))
serialize_tuple_variant(s, len) == write_array_header(s, Some(len))
serialize_map(s, len) == write_map_header(s, len)
serialize_struct(s, len) == write_map_header(s, Some(len))
serialize_struct_variant(s, len) == write_map_header(s, Some(len))

\* SerializeStruct::serialize_field with the key framed as a simple string.
struct_field_key_simple(s, key) == write_simple_string(s, key)

\* SerializeStruct::serialize_field up to its value: key.serialize(self)?
struct_field_key(s, key) == serialize_str(s, key)

\* SerializeStructVariant::serialize_field up to its value.
struct_variant_field_key(s, key) == write_simple_string(s, key)

(************************ what the visitor supplies ************************)
\* Every set has a part that is supplied at any depth and a part that is
\* supplied for the top-level value only.
Bools == {TRUE, FALSE}
I8s == {<<128>>, <<255>>, <<127>>}
I16s == {<<0, 128>>, <<255, 127>>}
I32s == {<<0, 0, 0, 128>>, <<10, 0, 0, 0>>}
I64s == {<<0, 0, 0, 0, 0, 0, 0, 128>>, <<255, 255, 255, 255, 255, 255, 255, 127>>,
         <<255, 255, 255, 255, 255, 255, 255, 255>>, <<0, 0, 0, 0, 0, 0, 0, 0>>}
U8s == {<<0>>, <<255>>}
U16s == {<<255, 255>>}
U32s == {<<5, 0, 0, 0>>, <<255, 255, 255, 255>>}
U64s == {<<5, 0, 0, 0, 0, 0, 0, 0>>, <<255, 255, 255, 255, 255, 255, 255, 127>>,
         <<0, 0, 0, 0, 0, 0, 0, 128>>, <<255, 255, 255, 255, 255, 255, 255, 255>>}
\* a, +, CR, LF, U+00E9, U+20AC, U+1F600
Chars == {97, 43, CR, LF, 233, 8364, 128512}
Strs == {<<>>, <<97>>, <<233>>, <<97, CR, LF, 98>>, <<8364, 128512>>,
         <<49, 50, 51, 52, 53, 54, 55, 56, 57, 48, 49>>}
ByteSlices == {<<>>, <<97, 98>>, <<195, 169>>, <<255>>, <<195>>, <<97, 128>>,
               <<237, 160, 128>>, <<226, 130, 172, 13, 10>>}
\* &'static str names: variants and fields (a rename may hold any text).
Variants == {<<65>>, <<233>>}
FieldNames == {<<233>>, <<97, LF, 98>>}
Lens == 0..MaxLen
OptLens == {None} \cup {Some(n) : n \in Lens}

ElemBools == {TRUE}
ElemChars == {LF}
ElemStrs == {<<233>>}
ElemFieldNames == {<<120>>}

(***************************** positions ***********************************)
\* An item: one call of the visitor that has returned, the bytes [lo, hi)
\* of the sink it produced, the items of its parts, and its role in the
\* composite it is a part of (elem, key, value, name, inner; top at the top).
NoItem == [call |-> [m |-> "", v |-> 0], role |-> "", lo |-> 0, hi |-> 0, kids |-> <<>>]
Item(call, lo, hi, kids) ==
    [call |-> call, role |-> "top", lo |-> lo, hi |-> hi, kids |-> kids]
Call(m, v) == [m |-> m, v |-> v]

\* A frame: a composite (or wrapper) the visitor has begun and not ended.
\* phase: idle (between parts), value / key / entry_key (inside the handler
\* that hands a part to value.serialize(self)), keyed (a key was written,
\* its value is due), wrap (a wrapper awaiting its one value).
Frame(call, start, phase) == [call |-> call, start |-> start, items |-> <<>>, phase |-> phase]

Top == stack[Len(stack)]
Running == result.tag = "Pending"
AtTop == stack = <<>>
\* A value is due: the top-level one, or the part a handler is serializing.
ExpectValue ==
    /\ Running /\ fuel > 0
    /\ IF AtTop THEN TRUE ELSE Top.phase \in {"value", "key", "entry_key", "wrap"}

In(all, elem) == IF AtTop THEN all ELSE elem
\* The fields of the top-level record, or of a record inside it.
FieldNamesAt == IF Len(stack) = 1 THEN FieldNames ELSE ElemFieldNames

Front(q) == SubSeq(q, 1, Len(q) - 1)

RECURSIVE Finish(_, _)
\* A value returned Ok(()): the handler that asked for it goes on.  A wrapper
\* returns in turn; serialize_entry goes on to serialize_value; the composite
\* waits for its next part; at the top the entry point returns Ok.
Finish(stk, item) ==
    IF stk = <<>> THEN [stack |-> stk, top |-> item, result |-> OkRes]
    ELSE LET f == stk[Len(stk)]
             role == CASE f.phase = "wrap" -> "inner"
                       [] f.phase \in {"key", "entry_key"} -> "key"
                       [] f.phase = "value" /\ f.call.m \in {"map", "struct", "struct_variant"}
                            -> "value"
                       [] OTHER -> "elem"
             part == [item EXCEPT !.role = role]
         IN  IF f.phase = "wrap"
             THEN Finish(Front(stk), Item(f.call, f.start, item.hi, <<part>>))
             ELSE [stack |-> [stk EXCEPT ![Len(stk)] =
                        [f EXCEPT !.items = Append(@, part),
                                  !.phase = CASE f.phase = "key" -> "keyed"
                                              [] f.phase = "entry_key" -> "value"
                                              [] OTHER -> "idle"]],
                   top |-> NoItem, result |-> Pending]

\* to_string once value.serialize(..)? has returned Ok over its Vec:
\* String::from_utf8(buf).unwrap() panics on bytes that are not UTF-8.
to_string(s, res) ==
    IF res.tag = "Ok" /\ ~s.bounded /\ from_utf8(s.buf) = <<-1>> THEN Panic ELSE res

\* The call did not return Ok: the pass ends with its Err, every caller
\* passing it on with `?` (or with its panic); top keeps the call.
Fail(call, r) ==
    /\ stack' = stack
    /\ top' = Item(call, Len(w.buf), Len(r.w.buf), <<>>)
    /\ result' = r.res

\* The method returned r: an Ok finishes the value.
Return(call, r) ==
    /\ w' = r.w
    /\ fuel' = fuel - 1
    /\ IF r.res.tag = "Ok"
       THEN LET f == Finish(stack, Item(call, Len(w.buf), Len(r.w.buf), <<>>))
            IN  stack' = f.stack /\ top' = f.top /\ result' = to_string(r.w, f.result)
       ELSE Fail(call, r)

\* A composite or wrapper began with r: its frame opens.
Begin(call, r, phase) ==
    /\ w' = r.w
    /\ fuel' = fuel - 1
    /\ IF r.res.tag = "Ok"
       THEN /\ stack' = Append(stack, Frame(call, Len(w.buf), phase))
            /\ UNCHANGED <<result, top>>
       ELSE Fail(call, r)

(************************ actions: leaf values *****************************)
\* One action per method of impl ser::Serializer.  A method whose action
\* asks for AtTop, or whose set of parts is empty, is called for the
\* top-level value only.
SerializeBool == \E v \in In(Bools, ElemBools) :
    ExpectValue /\ Return(Call("bool", v), serialize_bool(w, v))
SerializeI8 == \E v \in In(I8s, {}) :
    ExpectValue /\ Return(Call("i8", v), serialize_i8(w, v))
SerializeI16 == \E v \in In(I16s, {}) :
    ExpectValue /\ Return(Call("i16", v), serialize_i16(w, v))
SerializeI32 == \E v \in In(I32s, {}) :
    ExpectValue /\ Return(Call("i32", v), serialize_i32(w, v))
SerializeI64 == \E v \in In(I64s, {}) :
    ExpectValue /\ Return(Call("i64", v), serialize_i64(w, v))
SerializeU8 == \E v \in In(U8s, {}) :
    ExpectValue /\ Return(Call("u8", v), serialize_u8(w, v))
SerializeU16 == \E v \in In(U16s, {}) :
    ExpectValue /\ Return(Call("u16", v), serialize_u16(w, v))
SerializeU32 == \E v \in In(U32s, {}) :
    ExpectValue /\ Return(Call("u32", v), serialize_u32(w, v))
SerializeU64 == \E v \in In(U64s, {}) :
    ExpectValue /\ Return(Call("u64", v), serialize_u64(w, v))
SerializeChar == \E v \in In(Chars, ElemChars) :
    ExpectValue /\ Return(Call("char", v), serialize_char(w, v))
SerializeStr == \E v \in In(Strs, ElemStrs) :
    ExpectValue /\ Return(Call("str", v), serialize_str(w, v))
SerializeBytes == \E v \in In(ByteSlices, {}) :
    ExpectValue /\ Return(Call("bytes", v), serialize_bytes(w, v))
SerializeNone ==
    ExpectValue /\ Return(Call("none", 0), serialize_none(w))
SerializeUnit ==
    ExpectValue /\ AtTop /\ Return(Call("unit", 0), serialize_unit(w))
SerializeUnitStruct ==
    ExpectValue /\ AtTop /\ Return(Call("unit_struct", 0), serialize_unit_struct(w))
SerializeUnitVariant == \E v \in In(Variants, {}) :
    ExpectValue /\ Return(Call("unit_variant", v), serialize_unit_variant(w, v))

(******************* actions: wrappers and composites **********************)
SerializeSome ==
    ExpectValue /\ Begin(Call("some", 0), serialize_some(w), "wrap")
SerializeNewtypeStruct ==
    ExpectValue /\ AtTop /\ Begin(Call("newtype_struct", 0), serialize_newtype_struct(w), "wrap")
SerializeNewtypeVariant ==
    ExpectValue /\ AtTop /\ Begin(Call("newtype_variant", 0), serialize_newtype_variant(w), "wrap")
SerializeSeqBegin == \E len \in OptLens :
    ExpectValue /\ Begin(Call("seq", len), serialize_seq(w, len), "idle")
SerializeTupleBegin == \E len \in Lens :
    ExpectValue /\ AtTop /\ Begin(Call("tuple", Some(len)), serialize_tuple(w, len), "idle")
SerializeTupleStructBegin == \E len \in Lens :
    ExpectValue /\ AtTop
    /\ Begin(Call("tuple_struct", Some(len)), serialize_tuple_struct(w, len), "idle")
SerializeTupleVariantBegin == \E len \in Lens :
    ExpectValue /\ AtTop
    /\ Begin(Call("tuple_variant", Some(len)), serialize_tuple_variant(w, len), "idle")
SerializeMapBegin == \E len \in OptLens :
    ExpectValue /\ AtTop /\ Begin(Call("map", len), serialize_map(w, len), "idle")
SerializeStructBegin == \E len \in Lens :
    ExpectValue /\ Begin(Call("struct", Some(len)), serialize_struct(w, len), "idle")
SerializeStructVariantBegin == \E len \in Lens :
    ExpectValue /\ AtTop
    /\ Begin(Call("struct_variant", Some(len)), serialize_struct_variant(w, len), "idle")

(********************** actions: parts and ends ****************************)
\* Parts of the open composite the visitor has supplied so far: elements of
\* an array form, pairs of a map form.
IsMapForm(m) == m \in {"map", "struct", "struct_variant"}
IsArrayForm(m) == m \in {"seq", "tuple", "tuple_struct", "tuple_variant"}
Supplied(f) == IF IsMapForm(f.call.m) THEN Len(f.items) \div 2 ELSE Len(f.items)

\* The visitor is at the composite m, between two parts, with more to supply:
\* it supplies the count it declared; with none declared, up to MaxLen.
MayPart(m) ==
    /\ Running /\ ~AtTop /\ Top.call.m = m /\ Top.phase = "idle"
    /\ Supplied(Top) < (IF Top.call.v.some THEN Top.call.v.n ELSE MaxLen)

\* The visitor has supplied what it declared and ends the composite.
MayEnd(m) ==
    /\ Running /\ ~AtTop /\ Top.call.m = m /\ Top.phase = "idle"
    /\ Top.call.v.some => Supplied(Top) = Top.call.v.n

\* The handler hands the part to value.serialize(&mut **self).
Enter(phase) ==
    /\ stack' = [stack EXCEPT ![Len(stack)].phase = phase]
    /\ UNCHANGED <<w, result, fuel, top>>

\* end(self) returns Ok(()) and writes nothing: the composite is finished.
End ==
    LET f == Finish(Front(stack), Item(Top.call, Top.start, Len(w.buf), Top.items))
    IN  /\ stack' = f.stack /\ top' = f.top /\ result' = to_string(w, f.result)
        /\ UNCHANGED <<w, fuel>>

\* The handler wrote the field name with r and hands the value on.
Field(key, r) ==
    /\ w' = r.w
    /\ UNCHANGED fuel
    /\ IF r.res.tag = "Ok"
       THEN /\ stack' = [stack EXCEPT ![Len(stack)] =
                   [Top EXCEPT !.phase = "value",
                               !.items = Append(@,
                                   [Item(Call("field_name", key), Len(w.buf),
                                         Len(r.w.buf), <<>>) EXCEPT !.role = "name"])]]
            /\ UNCHANGED <<result, top>>
       ELSE Fail(Call("field_name", key), r)

SeqElement == MayPart("seq") /\ Enter("value")
SeqEnd == MayEnd("seq") /\ End
TupleElement == MayPart("tuple") /\ Enter("value")
TupleEnd == MayEnd("tuple") /\ End
TupleStructField == MayPart("tuple_struct") /\ Enter("value")
TupleStructEnd == MayEnd("tuple_struct") /\ End
TupleVariantField == MayPart("tuple_variant") /\ Enter("value")
TupleVariantEnd == MayEnd("tuple_variant") /\ End
MapKey == MayPart("map") /\ Enter("key")
MapValue ==
    /\ Running /\ ~AtTop /\ Top.call.m = "map" /\ Top.phase = "keyed"
    /\ Enter("value")
MapEntry == MayPart("map") /\ Enter("entry_key")
MapEnd == MayEnd("map") /\ End
StructField == \E key \in FieldNamesAt :
    MayPart("struct") /\ Field(key, struct_field_key(w, key))
StructEnd == MayEnd("struct") /\ End
StructVariantField == \E key \in FieldNamesAt :
    MayPart("struct_variant") /\ Field(key, struct_variant_field_key(w, key))
StructVariantEnd == MayEnd("struct_variant") /\ End

(**************************** specifications *******************************)
Start(sink, calls) ==
    /\ w = sink /\ stack = <<>> /\ result = Pending /\ fuel = calls /\ top = NoItem

\* to_string: a fresh Vec<u8> is the sink.
Init == Start(VecSink, MaxCalls)
\* Serializer::new(w) over a sink that accepts only so many bytes.
InitIo == \E n \in 0..MaxRoom : Start(BoundedSink(n), MaxIoCalls)

Next ==
    \/ SerializeBool \/ SerializeI8 \/ SerializeI16 \/ SerializeI32 \/ SerializeI64
    \/ SerializeU8 \/ SerializeU16 \/ SerializeU32 \/ SerializeU64
    \/ SerializeChar \/ SerializeStr \/ SerializeBytes \/ SerializeNone
    \/ SerializeUnit \/ SerializeUnitStruct \/ SerializeUnitVariant
    \/ SerializeSome \/ SerializeNewtypeStruct \/ SerializeNewtypeVariant
    \/ SerializeSeqBegin \/ SerializeTupleBegin \/ SerializeTupleStructBegin
    \/ SerializeTupleVariantBegin \/ SerializeMapBegin \/ SerializeStructBegin
    \/ SerializeStructVariantBegin
    \/ SeqElement \/ SeqEnd \/ TupleElement \/ TupleEnd
    \/ TupleStructField \/ TupleStructEnd \/ TupleVariantField \/ TupleVariantEnd
    \/ MapKey \/ MapValue \/ MapEntry \/ MapEnd
    \/ StructField \/ StructEnd \/ StructVariantField \/ StructVariantEnd

Spec == Init /\ [][Next]_vars
SpecIo == InitIo /\ [][Next]_vars

(*********************** reading the sink back *****************************)
Slice(lo, hi) == SubSeq(w.buf, lo + 1, hi)
Bytes(it) == Slice(it.lo, it.hi)

RECURSIVE Flat(_)
RECURSIVE FlatAll(_)
\* An item and every item below it, parents first.
Flat(it) == <<it>> \o FlatAll(it.kids)
FlatAll(items) == IF items = <<>> THEN <<>> ELSE Flat(Head(items)) \o FlatAll(Tail(items))

RECURSIVE OpenItems(_)
OpenItems(i) == IF i = 0 THEN <<>> ELSE OpenItems(i - 1) \o stack[i].items

\* Every call that has returned Ok so far, at any depth.
Finished == FlatAll((IF result.tag = "Ok" THEN <<top>> ELSE <<>>) \o OpenItems(Len(stack)))

IsDigit(b) == b >= 48 /\ b <= 57

RECURSIVE DecValue(_)
\* The number a run of decimal digits denotes; -1 for anything else.
DecValue(d) ==
    IF d = <<>> \/ ~IsDigit(d[Len(d)]) THEN -1
    ELSE IF Len(d) = 1 THEN d[1] - 48
    ELSE LET hi == DecValue(SubSeq(d, 1, Len(d) - 1))
         IN  IF hi < 0 THEN -1 ELSE hi * 10 + (d[Len(d)] - 48)

RECURSIVE LineEnd(_, _)
\* Where the first CR LF at or after position i of b starts; 0 when none.
LineEnd(b, i) ==
    IF i + 1 > Len(b) THEN 0
    ELSE IF b[i] = CR /\ b[i + 1] = LF THEN i
    ELSE LineEnd(b, i + 1)

\* The count in the header line a token starts with, and the header's length.
HeaderCount(tok) == DecValue(SubSeq(tok, 2, LineEnd(tok, 2) - 1))
HeaderLen(tok) == LineEnd(tok, 2) + 1

\* tok is `$`, the length of payload in decimal, CR LF, payload, CR LF.
IsBulk(tok, payload) ==
    /\ Len(tok) >= 6 /\ tok[1] = BULK_STRING
    /\ HeaderCount(tok) = Len(payload)
    /\ SubSeq(tok, HeaderLen(tok) + 1, HeaderLen(tok) + Len(payload)) = payload
    /\ SubSeq(tok, HeaderLen(tok) + Len(payload) + 1, Len(tok)) = CRLF

IsLeaf(m) == m \in {"bool", "i8", "i16", "i32", "i64", "u8", "u16", "u32", "u64", "char",
                    "str", "bytes", "none", "unit", "unit_struct", "unit_variant"}

\* What the entry point writes for a leaf value encoded on its own.
Alone(c) ==
    LET r == CASE c.m = "bool" -> serialize_bool(VecSink, c.v)
               [] c.m = "i8" -> serialize_i8(VecSink, c.v)
               [] c.m = "i16" -> serialize_i16(VecSink, c.v)
               [] c.m = "i32" -> serialize_i32(VecSink, c.v)
               [] c.m = "i64" -> serialize_i64(VecSink, c.v)
               [] c.m = "u8" -> serialize_u8(VecSink, c.v)
               [] c.m = "u16" -> serialize_u16(VecSink, c.v)
               [] c.m = "u32" -> serialize_u32(VecSink, c.v)
               [] c.m = "u64" -> serialize_u64(VecSink, c.v)
               [] c.m = "char" -> serialize_char(VecSink, c.v)
               [] c.m = "str" -> serialize_str(VecSink, c.v)
               [] c.m = "bytes" -> serialize_bytes(VecSink, c.v)
               [] c.m = "none" -> serialize_none(VecSink)
               [] c.m = "unit" -> serialize_unit(VecSink)
               [] c.m = "unit_struct" -> serialize_unit_struct(VecSink)
               [] OTHER -> serialize_unit_variant(VecSink, c.v)
    IN  r.w.buf

\* A part that is a leaf holds exactly what the leaf encodes to on its own.
PartAlone(k) == IsLeaf(k.call.m) => Bytes(k) = Alone(k.call)

\* The parts of it follow its header of hdr bytes back to back, in the order
\* they were supplied, and nothing follows the last one.
BackToBack(it, hdr) ==
    /\ it.lo + hdr = (IF it.kids = <<>> THEN it.hi ELSE it.kids[1].lo)
    /\ \A i \in 1..Len(it.kids) :
          it.kids[i].hi = (IF i = Len(it.kids) THEN it.hi ELSE it.kids[i + 1].lo)

Parts(it) == IF IsMapForm(it.call.m) THEN Len(it.kids) \div 2 ELSE Len(it.kids)

IsPrefix(a, b) == Len(a) <= Len(b) /\ SubSeq(b, 1, Len(a)) = a

RECURSIVE MulAdd10(_, _, _)
MulAdd10(le, i, c) ==
    IF i > Len(le) THEN le
    ELSE LET cur == le[i] * 10 + c
         IN  MulAdd10([le EXCEPT ![i] = cur % 256], i + 1, cur \div 256)

RECURSIVE ParseU64(_, _)
\* The 64-bit pattern a run of decimal digits denotes.
ParseU64(d, acc) ==
    IF d = <<>> THEN acc ELSE ParseU64(Tail(d), MulAdd10(acc, 1, Head(d) - 48))

\* The byte payloads supplied that are well-formed UTF-8.
Utf8Payloads == {<<>>, <<97, 98>>, <<195, 169>>, <<226, 130, 172, 13, 10>>}

(*************************************************************************)
(* C1: the count in a composite's header line equals the number of       *)
(* elements (array header) or key/value pairs (map header) emitted after *)
(* it before the composite ends, whether or not a count was declared.    *)
(*************************************************************************)
HeaderCountMatches ==
    \A i \in 1..Len(Finished) :
        LET it == Finished[i]
        IN  (IsArrayForm(it.call.m) \/ IsMapForm(it.call.m)) =>
                /\ Bytes(it)[1] = (IF IsMapForm(it.call.m) THEN MAP ELSE ARRAY)
                /\ HeaderCount(Bytes(it)) = Parts(it)

(*************************************************************************)
(* C2: a bulk string is `$`, the number of BYTES of the payload in       *)
(* decimal, CR LF, the payload bytes unchanged and exactly one CR LF, so *)
(* reading the declared length and that many bytes gives the payload.    *)
(*************************************************************************)
BulkStringLengthInBytes ==
    \A i \in 1..Len(Finished) :
        LET it == Finished[i]
        IN  it.call.m \in {"str", "unit_variant"} => IsBulk(Bytes(it), Utf8(it.call.v))

\* A text with multi-byte characters went out as a bulk string.
BulkStringMultiByteWritten ==
    /\ result.tag = "Ok" /\ top.call.m = "str"
    /\ Len(Utf8(top.call.v)) > Len(top.call.v)

(*************************************************************************)
(* C3: no simple-string token holds a CR or LF in its payload: a CR or   *)
(* LF character goes out as `$1` CR LF char CR LF, any other character   *)
(* as `+` char CR LF, and a variant record's field names, written as     *)
(* simple strings, never put a line terminator inside a `+` token.       *)
(*************************************************************************)
NoLineBreakInSimpleString ==
    \A i \in 1..Len(Finished) :
        LET it == Finished[i]
            tok == Bytes(it)
        IN  /\ it.call.m = "char" =>
                   tok = (IF it.call.v \in {CR, LF}
                          THEN <<BULK_STRING, 49, CR, LF, it.call.v, CR, LF>>
                          ELSE <<SIMPLE_STRING>> \o Utf8Char(it.call.v) \o CRLF)
            /\ (it.call.m \in {"char", "field_name"} /\ tok[1] = SIMPLE_STRING) =>
                   \A j \in 2..(Len(tok) - 2) : tok[j] # CR /\ tok[j] # LF

(*************************************************************************)
(* C4: when a write to the sink fails, the entry point returns the error *)
(* carrying that failure, never success; no write is made to the sink    *)
(* after the failed one; the bytes the sink holds are left as they are.  *)
(*************************************************************************)
SinkFailureIsReturned ==
    /\ [](w.failed => (result = from("WriteZero") /\ w.late = 0))
    /\ [](result.tag = "Ok" => ~w.failed)
    /\ [][IsPrefix(w.buf, w'.buf) /\ (w.failed => w' = w)]_vars

\* The sink failed inside a composite, part of the output already in it.
SinkFailedInsideComposite ==
    /\ w.failed /\ stack # <<>> /\ top.call.m = "str"
    /\ top.hi > top.lo + 4

(*************************************************************************)
(* C5: a mapping of P pairs is `%P` CR LF and then exactly P groups, each*)
(* one key immediately followed by that key's value, and the pairs       *)
(* emitted are the pairs supplied, in whatever order they were supplied. *)
(*************************************************************************)
MapFraming ==
    \A i \in 1..Len(Finished) :
        LET it == Finished[i]
            tok == Bytes(it)
        IN  it.call.m = "map" =>
                /\ Len(it.kids) = 2 * Parts(it)
                /\ tok[1] = MAP /\ HeaderCount(tok) = Parts(it)
                /\ BackToBack(it, HeaderLen(tok))
                /\ \A j \in 1..Len(it.kids) :
                      /\ it.kids[j].role = (IF j % 2 = 1 THEN "key" ELSE "value")
                      /\ PartAlone(it.kids[j])

(*************************************************************************)
(* C6: an absent optional is exactly `_` CR LF; a present optional is    *)
(* exactly what its value encodes to on its own, no token added, so a    *)
(* present optional holding an absent one is `_` CR LF.                  *)
(*************************************************************************)
OptionalEncoding ==
    \A i \in 1..Len(Finished) :
        LET it == Finished[i]
        IN  /\ it.call.m = "none" => Bytes(it) = <<NULL, CR, LF>>
            /\ it.call.m = "some" =>
                   /\ Len(it.kids) = 1
                   /\ it.lo = it.kids[1].lo /\ it.hi = it.kids[1].hi
                   /\ PartAlone(it.kids[1])
                   /\ it.kids[1].call.m = "none" => Bytes(it) = <<NULL, CR, LF>>

\* Some(Some(None)) was encoded.
NestedOptionalEncoded ==
    /\ result.tag = "Ok" /\ top.call.m = "some"
    /\ top.kids[1].call.m = "some"
    /\ top.kids[1].kids[1].call.m = "none"

(*************************************************************************)
(* C7: a sequence, tuple or positional record of N elements is `*N` CR LF*)
(* written before any element, then the N elements in their order, each  *)
(* as it encodes on its own; nothing is dropped, repeated or reordered   *)
(* and ending the composite writes nothing.                              *)
(*************************************************************************)
ArrayFraming ==
    \A i \in 1..Len(Finished) :
        LET it == Finished[i]
            tok == Bytes(it)
        IN  IsArrayForm(it.call.m) =>
                /\ tok[1] = ARRAY /\ HeaderCount(tok) = Len(it.kids)
                /\ BackToBack(it, HeaderLen(tok))
                /\ \A j \in 1..Len(it.kids) :
                      it.kids[j].role = "elem" /\ PartAlone(it.kids[j])

(*************************************************************************)
(* C8: for every integer of every width the big-number tag `(` is used   *)
(* only when the value does not fit a signed 64-bit integer; a value that*)
(* fits is `:`, its decimal digits (`-` first when negative), CR LF.     *)
(*************************************************************************)
IntegerTagBySignedRange ==
    \A i \in 1..Len(Finished) :
        LET it == Finished[i]
            m == it.call.m
            tok == Bytes(it)
            fits == m # "u64" \/ it.call.v[8] < 128
            val == IF m = "u64" THEN it.call.v
                   ELSE as_i64(m \in {"i8", "i16", "i32", "i64"}, it.call.v)
            neg == val[8] >= 128
            mag == IF neg THEN wrapping_neg(val) ELSE val
            body == SubSeq(tok, 2, Len(tok) - 2)
            digits == IF neg THEN Tail(body) ELSE body
            parsed == ParseU64(digits, [k \in 1..8 |-> 0])
        IN  m \in {"i8", "i16", "i32", "i64", "u8", "u16", "u32", "u64"} =>
                /\ tok[1] = BIG_NUMBER => ~fits
                /\ fits =>
                      /\ tok[1] = INTEGER
                      /\ SubSeq(tok, Len(tok) - 1, Len(tok)) = CRLF
                      /\ neg => body[1] = 45
                      /\ digits # <<>> /\ \A k \in 1..Len(digits) : IsDigit(digits[k])
                      /\ \A k \in 1..8 : parsed[k] = mag[k]

(*************************************************************************)
(* C9: a record of F fields is `%F` CR LF and then, per field in the     *)
(* order declared, the name as a bulk string immediately followed by the *)
(* field's value; a variant record is the same with each name written as *)
(* a simple string `+name` CR LF.                                        *)
(*************************************************************************)
RecordFraming ==
    \A i \in 1..Len(Finished) :
        LET it == Finished[i]
            tok == Bytes(it)
        IN  it.call.m \in {"struct", "struct_variant"} =>
                /\ tok[1] = MAP /\ HeaderCount(tok) = it.call.v.n
                /\ Len(it.kids) = 2 * it.call.v.n
                /\ BackToBack(it, HeaderLen(tok))
                /\ \A j \in 1..Len(it.kids) :
                      LET k == it.kids[j]
                      IN  IF j % 2 = 1
                          THEN /\ k.role = "name" /\ k.call.m = "field_name"
                               /\ IF it.call.m = "struct"
                                  THEN IsBulk(Bytes(k), Utf8(k.call.v))
                                  ELSE Bytes(k) = <<SIMPLE_STRING>> \o Utf8(k.call.v) \o CRLF
                          ELSE k.role = "value" /\ PartAlone(k)

\* A record of one field whose value is a sequence was encoded.
RecordWithNestedValueEncoded ==
    /\ result.tag = "Ok" /\ top.call.m = "struct" /\ Len(top.kids) = 2
    /\ top.kids[1].call.v = <<233>>
    /\ top.kids[2].call.m = "seq" /\ Len(top.kids[2].kids) = 1

(*************************************************************************)
(* C10: a byte payload that is not UTF-8 aborts the call: no Ok, no Io   *)
(* or Custom error, and not a byte of its token reaches the sink; a      *)
(* payload that is UTF-8 is the bulk string of the same text.            *)
(*************************************************************************)
BytesUtf8OrAbort ==
    /\ top.call.m = "bytes" =>
          IF top.call.v \in Utf8Payloads
          THEN result.tag = "Ok" /\ IsBulk(Bytes(top), top.call.v)
          ELSE result.tag = "Panic" /\ top.hi = top.lo /\ w.buf = <<>>
    /\ result.tag = "Panic" => top.call.m = "bytes"

\* A payload with a stray continuation byte was handed in.
BytesAborted == top.call.m = "bytes" /\ top.call.v = <<97, 128>> /\ result.tag = "Panic"

=============================================================================
